---- MODULE Spec2Model ----
(***************************************************************************)
(* Model of the command-execution core of indy-sdk:                        *)
(*   - CommandExecutor (src/src/commands/mod.rs): the worker thread, the   *)
(*     mpsc channel, send, Drop and the mutex-guarded shared instance;     *)
(*   - CryptoCommandExecutor (src/libindy/src/commands/crypto.rs): the     *)
(*     nine crypto commands over WalletService and CryptoService.          *)
(* Spec / FairSpec drive the dispatcher, CryptoSpec drives the crypto      *)
(* executor's execute() directly.                                          *)
(***************************************************************************)
EXTENDS Integers, Sequences, FiniteSets, TLC

VARIABLES
    queue,        \* channel buffer between the Sender and the Receiver
    enqueued,     \* history: every command accepted by the channel, in order
    started,      \* history: commands the worker dequeued and began to execute
    completed,    \* history: commands whose execute (and callback) returned
    workerPc,     \* position of the worker thread
    current,      \* command the worker is executing
    senderAlive,  \* the CommandExecutor's Sender has not been dropped
    owner,        \* position of the CommandExecutor value itself (Drop)
    mutexHolder,  \* thread holding the guard of COMMAND_EXECUTOR
    threadPc,     \* position of each producer thread
    sendResult,   \* result of each producer's last send
    sendCalls,    \* number of send calls made by producers so far
    wallet,       \* WalletService: the records held by the wallet store
    lastCmd,      \* the CryptoCommand given to the last execute
    lastRes,      \* the result handed to that command's callback
    calls,        \* the service calls made by the last execute, in order
    callbacks,    \* the callback invocations of the last execute, in order
    metaSet,      \* history: the values of the successful set_key_metadata calls
    opCount       \* number of execute calls made so far

dvars == <<queue, enqueued, started, completed, workerPc, current, senderAlive,
           owner, mutexHolder, threadPc, sendResult, sendCalls>>

cvars == <<wallet, lastCmd, lastRes, calls, callbacks, metaSet, opCount>>

vars == <<dvars, cvars>>

----------------------------------------------------------------------------
(* Bounds *)

MaxSends == 3
NumThreads == 2
MaxOps == 3

Threads == 1..NumThreads

----------------------------------------------------------------------------
(* Command envelope *)

Domains == {"Agent", "Anoncreds", "Ledger", "Pool", "Signus", "Wallet"}

CommandKinds == Domains \cup {"Exit"}

NoThread == 0

NoCommand == [id |-> 0, kind |-> "None"]

Command(n, k) == [id |-> n, kind |-> k]

\* (fault) no arm matches Exit: it is dispatched like any other command
ExitArmMissing(cmd) == FALSE

\* (fault) the Wallet arm breaks the loop as the Exit arm does
IsExitOrWallet(cmd) == cmd.kind \in {"Exit", "Wallet"}

\* the match arm Ok(Command::Exit)
IsExit(cmd) == cmd.kind = "Exit"

----------------------------------------------------------------------------
(* The channel *)

\* (fault) a receive that hands out the newest message instead of the oldest
RecvNewest(q) == [cmd |-> q[Len(q)], rest |-> SubSeq(q, 1, Len(q) - 1)]

\* receiver.recv() on a non-empty buffer hands out the oldest message
Recv(q) == [cmd |-> Head(q), rest |-> Tail(q)]

\* (fault) a channel that refuses messages as soon as the loop was left
ReceiverAliveUntilBreak == workerPc \notin {"exited", "terminated"}

\* The Receiver lives in the worker's closure and is dropped when it returns
ReceiverAlive == workerPc \notin {"terminated", "panicked"}

\* Sender::send fails only when the Receiver has been dropped
ChannelSend(q, cmd) ==
    IF ReceiverAlive
    THEN [res |-> "Ok", q |-> Append(q, cmd)]
    ELSE [res |-> "Err", q |-> q]

----------------------------------------------------------------------------
(* COMMAND_EXECUTOR: Mutex<CommandExecutor> *)

\* (fault) a lock that is handed out while another guard is alive
MutexAlwaysFree == TRUE

\* Mutex::lock succeeds only while no guard is alive
MutexFree == mutexHolder = NoThread

\* instance(): the thread calls COMMAND_EXECUTOR.lock()
Instance(t) ==
    /\ owner = "alive"
    /\ threadPc[t] = "idle"
    /\ threadPc' = [threadPc EXCEPT ![t] = "waiting"]
    /\ UNCHANGED <<queue, enqueued, started, completed, workerPc, current,
                   senderAlive, owner, mutexHolder, sendResult, sendCalls>>
    /\ UNCHANGED cvars

\* a thread that holds the guard calls instance() again before releasing it
Reenter(t) ==
    /\ threadPc[t] = "holding"
    /\ threadPc' = [threadPc EXCEPT ![t] = "relocking"]
    /\ UNCHANGED <<queue, enqueued, started, completed, workerPc, current,
                   senderAlive, owner, mutexHolder, sendResult, sendCalls>>
    /\ UNCHANGED cvars

\* lock() returns the guard once no guard is alive, the caller's own included
Acquire(t) ==
    /\ threadPc[t] \in {"waiting", "relocking"}
    /\ MutexFree
    /\ mutexHolder' = t
    /\ threadPc' = [threadPc EXCEPT ![t] = "holding"]
    /\ UNCHANGED <<queue, enqueued, started, completed, workerPc, current,
                   senderAlive, owner, sendResult, sendCalls>>
    /\ UNCHANGED cvars

\* the guard, and with it the caller's use of the send result, goes out of scope
Release(t) ==
    /\ threadPc[t] = "holding"
    /\ mutexHolder' = NoThread
    /\ threadPc' = [threadPc EXCEPT ![t] = "idle"]
    /\ sendResult' = [sendResult EXCEPT ![t] = "none"]
    /\ UNCHANGED <<queue, enqueued, started, completed, workerPc, current,
                   senderAlive, owner, sendCalls>>
    /\ UNCHANGED cvars

----------------------------------------------------------------------------
(* CommandExecutor::send *)

Send(t, k) ==
    /\ threadPc[t] = "holding"
    /\ sendCalls < MaxSends
    /\ LET cmd == Command(sendCalls + 1, k)
           r == ChannelSend(queue, cmd)
       IN /\ queue' = r.q
          /\ sendResult' = [sendResult EXCEPT ![t] = r.res]
          /\ enqueued' = IF r.res = "Ok" THEN Append(enqueued, cmd) ELSE enqueued
    /\ sendCalls' = sendCalls + 1
    /\ UNCHANGED <<started, completed, workerPc, current, senderAlive, owner,
                   mutexHolder, threadPc>>
    /\ UNCHANGED cvars

----------------------------------------------------------------------------
(* The worker thread spawned by CommandExecutor::new *)

\* (fault) the next command is received while the current one is executing
WorkerRecvWhileExecuting ==
    /\ workerPc \in {"recv", "exec"}
    /\ \/ queue # <<>>
       \/ ~senderAlive
    /\ IF queue = <<>>
       THEN /\ workerPc' = "panicked"
            /\ UNCHANGED <<queue, started, current>>
       ELSE LET r == Recv(queue)
            IN /\ queue' = r.rest
               /\ IF IsExit(r.cmd)
                  THEN /\ workerPc' = "exited"
                       /\ UNCHANGED <<started, current>>
                  ELSE /\ workerPc' = "exec"
                       /\ current' = r.cmd
                       /\ started' = Append(started, r.cmd)
    /\ UNCHANGED <<enqueued, completed, senderAlive, owner, mutexHolder,
                   threadPc, sendResult, sendCalls>>
    /\ UNCHANGED cvars

\* (fault) a receive that does not block: an empty buffer is an Err
WorkerRecvNonBlocking ==
    /\ workerPc = "recv"
    /\ IF queue = <<>>
       THEN /\ workerPc' = "panicked"
            /\ UNCHANGED <<queue, started, current>>
       ELSE LET r == Recv(queue)
            IN /\ queue' = r.rest
               /\ IF IsExit(r.cmd)
                  THEN /\ workerPc' = "exited"
                       /\ UNCHANGED <<started, current>>
                  ELSE /\ workerPc' = "exec"
                       /\ current' = r.cmd
                       /\ started' = Append(started, r.cmd)
    /\ UNCHANGED <<enqueued, completed, senderAlive, owner, mutexHolder,
                   threadPc, sendResult, sendCalls>>
    /\ UNCHANGED cvars

\* match receiver.recv(): blocks while the buffer is empty and a Sender lives
WorkerRecv ==
    /\ workerPc = "recv"
    /\ \/ queue # <<>>
       \/ ~senderAlive
    /\ IF queue = <<>>
       THEN \* Err(err) => panic!
            /\ workerPc' = "panicked"
            /\ UNCHANGED <<queue, started, current>>
       ELSE LET r == Recv(queue)
            IN /\ queue' = r.rest
               /\ IF IsExit(r.cmd)
                  THEN \* Ok(Command::Exit) => break
                       /\ workerPc' = "exited"
                       /\ UNCHANGED <<started, current>>
                  ELSE \* Ok(Command::X(cmd)) => x_command_executor.execute(cmd)
                       /\ workerPc' = "exec"
                       /\ current' = r.cmd
                       /\ started' = Append(started, r.cmd)
    /\ UNCHANGED <<enqueued, completed, senderAlive, owner, mutexHolder,
                   threadPc, sendResult, sendCalls>>
    /\ UNCHANGED cvars

\* the sub-executor's execute, callback included, returns to the loop
WorkerExecuteDone ==
    /\ workerPc = "exec"
    /\ completed' = Append(completed, current)
    /\ current' = NoCommand
    /\ workerPc' = "recv"
    /\ UNCHANGED <<queue, enqueued, started, senderAlive, owner, mutexHolder,
                   threadPc, sendResult, sendCalls>>
    /\ UNCHANGED cvars

\* the closure returns: the Receiver and what it still buffers are dropped
WorkerReturn ==
    /\ workerPc = "exited"
    /\ workerPc' = "terminated"
    /\ queue' = <<>>
    /\ UNCHANGED <<enqueued, started, completed, current, senderAlive, owner,
                   mutexHolder, threadPc, sendResult, sendCalls>>
    /\ UNCHANGED cvars

----------------------------------------------------------------------------
(* Drop for CommandExecutor *)

\* self.send(Command::Exit).unwrap()
DropSendExit ==
    /\ owner = "alive"
    /\ \A t \in Threads : threadPc[t] = "idle"
    /\ LET cmd == Command(0, "Exit")
           r == ChannelSend(queue, cmd)
       IN /\ queue' = r.q
          /\ enqueued' = IF r.res = "Ok" THEN Append(enqueued, cmd) ELSE enqueued
          /\ IF r.res = "Ok"
             THEN /\ owner' = "joining"
                  /\ UNCHANGED senderAlive
             ELSE \* unwrap of Err panics; unwinding drops the fields
                  /\ owner' = "drop_panicked"
                  /\ senderAlive' = FALSE
    /\ UNCHANGED <<started, completed, workerPc, current, mutexHolder,
                   threadPc, sendResult, sendCalls>>
    /\ UNCHANGED cvars

\* (fault) a join that does not wait for the worker
JoinWithoutWaiting == TRUE

\* join() returns once the worker thread has finished
WorkerFinished == workerPc \in {"terminated", "panicked"}

\* self.worker.take().unwrap().join().unwrap()
DropJoin ==
    /\ owner = "joining"
    /\ WorkerFinished
    /\ owner' = IF workerPc = "panicked" THEN "drop_panicked" ELSE "dropped"
    /\ senderAlive' = FALSE
    /\ UNCHANGED <<queue, enqueued, started, completed, workerPc, current,
                   mutexHolder, threadPc, sendResult, sendCalls>>
    /\ UNCHANGED cvars

----------------------------------------------------------------------------
(* Data of the crypto commands *)

Handles == {1, 2}

\* the private key behind each verkey the primitive library can produce
SignKeyOf == [vk \in {"V1", "V2"} |-> IF vk = "V1" THEN "S1" ELSE "S2"]

WellFormedVerkeys == DOMAIN SignKeyOf

Verkeys == WellFormedVerkeys \cup {"bad"}

Metadata == {"m1", "m2"}

Messages == {"hello", "tampered"}

Seeds == {"none", "seed1", "seed2"}

CryptoTypes == {"none", "unknown"}

Key(vk) == [verkey |-> vk, signkey |-> SignKeyOf[vk]]

KeyMetadata(m) == [value |-> m]

KeyInfo(seed, ctype) == [seed |-> seed, crypto_type |-> ctype]

Signature(sk, msg) == [wf |-> TRUE, signkey |-> sk, msg |-> msg]

BadSignature == [wf |-> FALSE, signkey |-> "none", msg |-> "none"]

Signatures ==
    {Signature(SignKeyOf[vk], m) : vk \in WellFormedVerkeys, m \in Messages}
        \cup {BadSignature}

AuthCrypted(sender, recipient, msg) ==
    [kind |-> "authcrypt", sender |-> sender, recipient |-> recipient, msg |-> msg]

Sealed(recipient, msg) ==
    [kind |-> "sealed", sender |-> "none", recipient |-> recipient, msg |-> msg]

Garbage == [kind |-> "garbage", sender |-> "none", recipient |-> "none", msg |-> "none"]

Ciphertexts ==
    {AuthCrypted(s, r, "hello") : s \in WellFormedVerkeys, r \in WellFormedVerkeys}
        \cup {Sealed(r, "hello") : r \in WellFormedVerkeys}
        \cup {Garbage}

Ok(v) == [ok |-> TRUE, val |-> v, err |-> "none"]

Err(e) == [ok |-> FALSE, val |-> "none", err |-> e]

----------------------------------------------------------------------------
(* WalletService: records named within a scope (handle) and a type *)

Record(wh, type, name, value) ==
    [wh |-> wh, type |-> type, name |-> name, value |-> value]

Find(wal, wh, type, name) ==
    {r \in wal : r.wh = wh /\ r.type = type /\ r.name = name}

WalletService_add_indy_object(wal, wh, type, name, value) ==
    IF Find(wal, wh, type, name) # {}
    THEN [res |-> Err("WalletItemAlreadyExists"), wallet |-> wal]
    ELSE [res |-> Ok("unit"), wallet |-> wal \cup {Record(wh, type, name, value)}]

WalletService_get_indy_object(wal, wh, type, name) ==
    IF Find(wal, wh, type, name) = {}
    THEN Err("WalletItemNotFound")
    ELSE Ok((CHOOSE r \in Find(wal, wh, type, name) : TRUE).value)

WalletService_upsert_indy_object(wal, wh, type, name, value) ==
    [res |-> Ok("unit"),
     wallet |-> (wal \ Find(wal, wh, type, name))
                    \cup {Record(wh, type, name, value)}]

----------------------------------------------------------------------------
(* CryptoService: the primitive library *)

CryptoService_validate_key(vk) ==
    IF vk \in WellFormedVerkeys THEN Ok("unit") ELSE Err("InvalidKeyFormat")

\* a seed fixes the key pair; without a seed the pair is drawn at random (rnd)
CryptoService_create_key(info, rnd) ==
    IF info.crypto_type = "unknown"
    THEN Err("CryptoOperationFailed")
    ELSE Ok(Key(CASE info.seed = "seed1" -> "V1"
                  [] info.seed = "seed2" -> "V2"
                  [] OTHER -> rnd))

CryptoService_sign(key, msg) == Ok(Signature(key.signkey, msg))

CryptoService_verify(vk, msg, sig) ==
    IF ~sig.wf
    THEN Err("CryptoOperationFailed")
    ELSE Ok(sig.signkey = SignKeyOf[vk] /\ sig.msg = msg)

CryptoService_authenticated_encrypt(key, their_vk, msg) ==
    Ok(AuthCrypted(key.verkey, their_vk, msg))

CryptoService_authenticated_decrypt(key, ct) ==
    IF ct.kind = "authcrypt" /\ ct.recipient = key.verkey
    THEN Ok(<<ct.sender, ct.msg>>)
    ELSE Err("CryptoOperationFailed")

CryptoService_crypto_box_seal(their_vk, msg) == Ok(Sealed(their_vk, msg))

CryptoService_crypto_box_seal_open(key, ct) ==
    IF ct.kind = "sealed" /\ ct.recipient = key.verkey
    THEN Ok(ct.msg)
    ELSE Err("CryptoOperationFailed")

----------------------------------------------------------------------------
(* CryptoCommandExecutor: each operation yields its result, the wallet it *)
(* leaves and the service calls it made; `?` returns at the first Err.     *)

Out(res, wal, cs) == [res |-> res, wallet |-> wal, calls |-> cs]

\* (fault) the generated Key is handed back without being stored
create_key_not_stored(wal, wh, info, rnd) ==
    LET k == CryptoService_create_key(info, rnd)
    IN IF ~k.ok THEN Out(k, wal, <<"create_key">>)
       ELSE Out(Ok(k.val.verkey), wal, <<"create_key">>)

\* (fault) the new Key is stored with upsert instead of add
create_key_upsert(wal, wh, info, rnd) ==
    LET k == CryptoService_create_key(info, rnd)
    IN IF ~k.ok THEN Out(k, wal, <<"create_key">>)
       ELSE LET u == WalletService_upsert_indy_object(wal, wh, "Key", k.val.verkey, k.val)
            IN Out(Ok(k.val.verkey), u.wallet, <<"create_key", "wallet.upsert">>)

create_key(wal, wh, info, rnd) ==
    LET k == CryptoService_create_key(info, rnd)
    IN IF ~k.ok THEN Out(k, wal, <<"create_key">>)
       ELSE LET a == WalletService_add_indy_object(wal, wh, "Key", k.val.verkey, k.val)
            IN IF ~a.res.ok
               THEN Out(a.res, a.wallet, <<"create_key", "wallet.add">>)
               ELSE Out(Ok(k.val.verkey), a.wallet, <<"create_key", "wallet.add">>)

crypto_sign(wal, wh, my_vk, msg) ==
    LET v == CryptoService_validate_key(my_vk)
    IN IF ~v.ok THEN Out(v, wal, <<"validate_key">>)
       ELSE LET g == WalletService_get_indy_object(wal, wh, "Key", my_vk)
            IN IF ~g.ok THEN Out(g, wal, <<"validate_key", "wallet.get">>)
               ELSE Out(CryptoService_sign(g.val, msg), wal,
                        <<"validate_key", "wallet.get", "sign">>)

\* (fault) a signature that does not match is reported as a failure
crypto_verify_mismatch_is_error(wal, their_vk, msg, sig) ==
    LET v == CryptoService_validate_key(their_vk)
        r == CryptoService_verify(their_vk, msg, sig)
    IN IF ~v.ok THEN Out(v, wal, <<"validate_key">>)
       ELSE IF r.ok /\ ~r.val
       THEN Out(Err("CryptoOperationFailed"), wal, <<"validate_key", "verify">>)
       ELSE Out(r, wal, <<"validate_key", "verify">>)

crypto_verify(wal, their_vk, msg, sig) ==
    LET v == CryptoService_validate_key(their_vk)
    IN IF ~v.ok THEN Out(v, wal, <<"validate_key">>)
       ELSE Out(CryptoService_verify(their_vk, msg, sig), wal,
                <<"validate_key", "verify">>)

\* (fault) their_vk is validated only after the sender's Key was fetched
authenticated_encrypt_late_validation(wal, wh, my_vk, their_vk, msg) ==
    LET v1 == CryptoService_validate_key(my_vk)
        v2 == CryptoService_validate_key(their_vk)
    IN IF ~v1.ok THEN Out(v1, wal, <<"validate_key">>)
       ELSE LET g == WalletService_get_indy_object(wal, wh, "Key", my_vk)
            IN IF ~g.ok THEN Out(g, wal, <<"validate_key", "wallet.get">>)
               ELSE IF ~v2.ok
               THEN Out(v2, wal, <<"validate_key", "wallet.get", "validate_key">>)
               ELSE Out(CryptoService_authenticated_encrypt(g.val, their_vk, msg), wal,
                        <<"validate_key", "wallet.get", "validate_key",
                          "authenticated_encrypt">>)

authenticated_encrypt(wal, wh, my_vk, their_vk, msg) ==
    LET v1 == CryptoService_validate_key(my_vk)
        v2 == CryptoService_validate_key(their_vk)
    IN IF ~v1.ok THEN Out(v1, wal, <<"validate_key">>)
       ELSE IF ~v2.ok THEN Out(v2, wal, <<"validate_key", "validate_key">>)
       ELSE LET g == WalletService_get_indy_object(wal, wh, "Key", my_vk)
            IN IF ~g.ok
               THEN Out(g, wal, <<"validate_key", "validate_key", "wallet.get">>)
               ELSE Out(CryptoService_authenticated_encrypt(g.val, their_vk, msg), wal,
                        <<"validate_key", "validate_key", "wallet.get",
                          "authenticated_encrypt">>)

authenticated_decrypt(wal, wh, my_vk, ct) ==
    LET v == CryptoService_validate_key(my_vk)
    IN IF ~v.ok THEN Out(v, wal, <<"validate_key">>)
       ELSE LET g == WalletService_get_indy_object(wal, wh, "Key", my_vk)
            IN IF ~g.ok THEN Out(g, wal, <<"validate_key", "wallet.get">>)
               ELSE Out(CryptoService_authenticated_decrypt(g.val, ct), wal,
                        <<"validate_key", "wallet.get", "authenticated_decrypt">>)

\* (fault) the recipient's verkey is noted in the wallet before sealing
anonymous_encrypt_stores_recipient(wal, their_vk, msg) ==
    LET v == CryptoService_validate_key(their_vk)
    IN IF ~v.ok THEN Out(v, wal, <<"validate_key">>)
       ELSE LET u == WalletService_upsert_indy_object(wal, 1, "KeyMetadata", their_vk,
                                                      KeyMetadata("none"))
            IN Out(CryptoService_crypto_box_seal(their_vk, msg), u.wallet,
                   <<"validate_key", "wallet.upsert", "crypto_box_seal">>)

anonymous_encrypt(wal, their_vk, msg) ==
    LET v == CryptoService_validate_key(their_vk)
    IN IF ~v.ok THEN Out(v, wal, <<"validate_key">>)
       ELSE Out(CryptoService_crypto_box_seal(their_vk, msg), wal,
                <<"validate_key", "crypto_box_seal">>)

\* (fault) a missing Key is reported as a failure of the primitive
anonymous_decrypt_conflates_miss(wal, wh, my_vk, ct) ==
    LET v == CryptoService_validate_key(my_vk)
    IN IF ~v.ok THEN Out(v, wal, <<"validate_key">>)
       ELSE LET g == WalletService_get_indy_object(wal, wh, "Key", my_vk)
            IN IF ~g.ok
               THEN Out(Err("CryptoOperationFailed"), wal, <<"validate_key", "wallet.get">>)
               ELSE Out(CryptoService_crypto_box_seal_open(g.val, ct), wal,
                        <<"validate_key", "wallet.get", "crypto_box_seal_open">>)

anonymous_decrypt(wal, wh, my_vk, ct) ==
    LET v == CryptoService_validate_key(my_vk)
    IN IF ~v.ok THEN Out(v, wal, <<"validate_key">>)
       ELSE LET g == WalletService_get_indy_object(wal, wh, "Key", my_vk)
            IN IF ~g.ok THEN Out(g, wal, <<"validate_key", "wallet.get">>)
               ELSE Out(CryptoService_crypto_box_seal_open(g.val, ct), wal,
                        <<"validate_key", "wallet.get", "crypto_box_seal_open">>)

\* (fault) the metadata is stored under the Key type of the same name
set_key_metadata_as_key(wal, wh, verkey, metadata) ==
    LET v == CryptoService_validate_key(verkey)
    IN IF ~v.ok THEN Out(v, wal, <<"validate_key">>)
       ELSE LET u == WalletService_upsert_indy_object(wal, wh, "Key", verkey,
                                                      KeyMetadata(metadata))
            IN Out(Ok("unit"), u.wallet, <<"validate_key", "wallet.upsert">>)

\* (fault) the metadata is stored with add instead of upsert
set_key_metadata_add(wal, wh, verkey, metadata) ==
    LET v == CryptoService_validate_key(verkey)
    IN IF ~v.ok THEN Out(v, wal, <<"validate_key">>)
       ELSE LET a == WalletService_add_indy_object(wal, wh, "KeyMetadata", verkey,
                                                   KeyMetadata(metadata))
            IN IF ~a.res.ok
               THEN Out(a.res, a.wallet, <<"validate_key", "wallet.add">>)
               ELSE Out(Ok("unit"), a.wallet, <<"validate_key", "wallet.add">>)

\* (fault) metadata is accepted only for a verkey whose Key is stored
set_key_metadata_requires_key(wal, wh, verkey, metadata) ==
    LET v == CryptoService_validate_key(verkey)
    IN IF ~v.ok THEN Out(v, wal, <<"validate_key">>)
       ELSE LET g == WalletService_get_indy_object(wal, wh, "Key", verkey)
            IN IF ~g.ok THEN Out(g, wal, <<"validate_key", "wallet.get">>)
               ELSE LET u == WalletService_upsert_indy_object(wal, wh, "KeyMetadata",
                                                              verkey, KeyMetadata(metadata))
                    IN Out(Ok("unit"), u.wallet,
                           <<"validate_key", "wallet.get", "wallet.upsert">>)

set_key_metadata(wal, wh, verkey, metadata) ==
    LET v == CryptoService_validate_key(verkey)
    IN IF ~v.ok THEN Out(v, wal, <<"validate_key">>)
       ELSE LET u == WalletService_upsert_indy_object(wal, wh, "KeyMetadata", verkey,
                                                      KeyMetadata(metadata))
            IN IF ~u.res.ok
               THEN Out(u.res, u.wallet, <<"validate_key", "wallet.upsert">>)
               ELSE Out(Ok("unit"), u.wallet, <<"validate_key", "wallet.upsert">>)

get_key_metadata(wal, wh, verkey) ==
    LET v == CryptoService_validate_key(verkey)
    IN IF ~v.ok THEN Out(v, wal, <<"validate_key">>)
       ELSE LET g == WalletService_get_indy_object(wal, wh, "KeyMetadata", verkey)
            IN IF ~g.ok THEN Out(g, wal, <<"validate_key", "wallet.get">>)
               ELSE Out(Ok(g.val.value), wal, <<"validate_key", "wallet.get">>)

----------------------------------------------------------------------------
(* CryptoCommandExecutor::execute *)

NoKeyInfo == KeyInfo("none", "none")

CryptoCommand(op, wh, vk, vk2, meta, msg, sig, ct, info, rnd) ==
    [op |-> op, wh |-> wh, vk |-> vk, vk2 |-> vk2, meta |-> meta, msg |-> msg,
     sig |-> sig, ct |-> ct, info |-> info, rnd |-> rnd]

NoCryptoCommand ==
    CryptoCommand("None", 0, "none", "none", "none", "none", BadSignature,
                  Garbage, NoKeyInfo, "none")

\* (fault) an arm that returns on Err without calling the callback
CallbackOnlyOnOk(cmd, out) ==
    /\ opCount < MaxOps
    /\ opCount' = opCount + 1
    /\ lastCmd' = cmd
    /\ wallet' = out.wallet
    /\ calls' = out.calls
    /\ lastRes' = out.res
    /\ callbacks' = IF out.res.ok THEN <<out.res>> ELSE <<>>
    /\ metaSet' = IF cmd.op = "SetKeyMetadata" /\ out.res.ok
                  THEN [metaSet EXCEPT ![<<cmd.wh, cmd.vk>>] = Append(@, cmd.meta)]
                  ELSE metaSet
    /\ UNCHANGED dvars

\* cb(result): the arm hands the operation's result to the command's callback
Callback(cmd, out) ==
    /\ opCount < MaxOps
    /\ opCount' = opCount + 1
    /\ lastCmd' = cmd
    /\ wallet' = out.wallet
    /\ calls' = out.calls
    /\ lastRes' = out.res
    /\ callbacks' = <<out.res>>
    /\ metaSet' = IF cmd.op = "SetKeyMetadata" /\ out.res.ok
                  THEN [metaSet EXCEPT ![<<cmd.wh, cmd.vk>>] = Append(@, cmd.meta)]
                  ELSE metaSet
    /\ UNCHANGED dvars

ExecuteCreateKey ==
    \E wh \in Handles, seed \in Seeds, ctype \in CryptoTypes, rnd \in WellFormedVerkeys :
        /\ (seed # "none" \/ ctype # "none") => rnd = "V1"
        /\ Callback(CryptoCommand("CreateKey", wh, "none", "none", "none", "none",
                                  BadSignature, Garbage, KeyInfo(seed, ctype), rnd),
                    create_key(wallet, wh, KeyInfo(seed, ctype), rnd))

ExecuteSetKeyMetadata ==
    \E wh \in Handles, vk \in Verkeys, m \in Metadata :
        Callback(CryptoCommand("SetKeyMetadata", wh, vk, "none", m, "none",
                               BadSignature, Garbage, NoKeyInfo, "none"),
                 set_key_metadata(wallet, wh, vk, m))

ExecuteGetKeyMetadata ==
    \E wh \in Handles, vk \in Verkeys :
        Callback(CryptoCommand("GetKeyMetadata", wh, vk, "none", "none", "none",
                               BadSignature, Garbage, NoKeyInfo, "none"),
                 get_key_metadata(wallet, wh, vk))

ExecuteCryptoSign ==
    \E wh \in Handles, vk \in Verkeys, msg \in Messages :
        Callback(CryptoCommand("CryptoSign", wh, vk, "none", "none", msg,
                               BadSignature, Garbage, NoKeyInfo, "none"),
                 crypto_sign(wallet, wh, vk, msg))

ExecuteCryptoVerify ==
    \E vk \in Verkeys, msg \in Messages, sig \in Signatures :
        Callback(CryptoCommand("CryptoVerify", 0, vk, "none", "none", msg,
                               sig, Garbage, NoKeyInfo, "none"),
                 crypto_verify(wallet, vk, msg, sig))

ExecuteAuthenticatedEncrypt ==
    \E wh \in Handles, vk \in Verkeys, vk2 \in Verkeys, msg \in Messages :
        Callback(CryptoCommand("AuthenticatedEncrypt", wh, vk, vk2, "none", msg,
                               BadSignature, Garbage, NoKeyInfo, "none"),
                 authenticated_encrypt(wallet, wh, vk, vk2, msg))

ExecuteAuthenticatedDecrypt ==
    \E wh \in Handles, vk \in Verkeys, ct \in Ciphertexts :
        Callback(CryptoCommand("AuthenticatedDecrypt", wh, vk, "none", "none", "none",
                               BadSignature, ct, NoKeyInfo, "none"),
                 authenticated_decrypt(wallet, wh, vk, ct))

ExecuteAnonymousEncrypt ==
    \E vk \in Verkeys, msg \in Messages :
        Callback(CryptoCommand("AnonymousEncrypt", 0, vk, "none", "none", msg,
                               BadSignature, Garbage, NoKeyInfo, "none"),
                 anonymous_encrypt(wallet, vk, msg))

ExecuteAnonymousDecrypt ==
    \E wh \in Handles, vk \in Verkeys, ct \in Ciphertexts :
        Callback(CryptoCommand("AnonymousDecrypt", wh, vk, "none", "none", "none",
                               BadSignature, ct, NoKeyInfo, "none"),
                 anonymous_decrypt(wallet, wh, vk, ct))

----------------------------------------------------------------------------

Init ==
    /\ queue = <<>>
    /\ enqueued = <<>>
    /\ started = <<>>
    /\ completed = <<>>
    /\ workerPc = "recv"
    /\ current = NoCommand
    /\ senderAlive = TRUE
    /\ owner = "alive"
    /\ mutexHolder = NoThread
    /\ threadPc = [t \in Threads |-> "idle"]
    /\ sendResult = [t \in Threads |-> "none"]
    /\ sendCalls = 0
    /\ wallet = {}
    /\ lastCmd = NoCryptoCommand
    /\ lastRes = Ok("unit")
    /\ calls = <<>>
    /\ callbacks = <<>>
    /\ metaSet = [k \in Handles \X Verkeys |-> <<>>]
    /\ opCount = 0

Next ==
    \/ \E t \in Threads : Instance(t)
    \/ \E t \in Threads : Reenter(t)
    \/ \E t \in Threads : Acquire(t)
    \/ \E t \in Threads : Release(t)
    \/ \E t \in Threads : \E k \in CommandKinds : Send(t, k)
    \/ WorkerRecv
    \/ WorkerExecuteDone
    \/ WorkerReturn
    \/ DropSendExit
    \/ DropJoin

Spec == Init /\ [][Next]_vars

\* execute() called with every CryptoCommand
CryptoNext ==
    \/ ExecuteCreateKey
    \/ ExecuteSetKeyMetadata
    \/ ExecuteGetKeyMetadata
    \/ ExecuteCryptoSign
    \/ ExecuteCryptoVerify
    \/ ExecuteAuthenticatedEncrypt
    \/ ExecuteAuthenticatedDecrypt
    \/ ExecuteAnonymousEncrypt
    \/ ExecuteAnonymousDecrypt

CryptoSpec == Init /\ [][CryptoNext]_vars

\* The OS schedules the worker thread and the dropping thread; a callback
\* that returns is the fairness of WorkerExecuteDone.
FairSpec ==
    /\ Init /\ [][Next]_vars
    /\ WF_vars(WorkerRecv)
    /\ WF_vars(WorkerExecuteDone)
    /\ WF_vars(WorkerReturn)
    /\ WF_vars(DropJoin)

----------------------------------------------------------------------------
(* Properties of the dispatcher *)

IsPrefix(s, t) == Len(s) <= Len(t) /\ SubSeq(t, 1, Len(s)) = s

\* C1: the commands the worker has started (and those it has completed) are
\* always a prefix of the commands appended to the channel, whatever the
\* interleaving of the producers.
C1_DispatcherFifo ==
    /\ IsPrefix(started, enqueued)
    /\ IsPrefix(completed, started)

C1_Witness ==
    /\ Len(completed) = 3
    /\ \E t \in Threads : threadPc[t] = "holding"

\* C2: when the worker has terminated, every command accepted by the channel
\* ahead of the first Exit has been executed to completion.
C2_NoDropBeforeExit ==
    workerPc = "terminated" =>
        \A i \in 1..Len(enqueued) :
            (\A j \in 1..i : enqueued[j].kind # "Exit") =>
                \E n \in 1..Len(completed) : completed[n] = enqueued[i]

C2_Witness ==
    /\ workerPc = "terminated"
    /\ Len(completed) = 2
    /\ Len(enqueued) = 3
    /\ enqueued[3].kind = "Exit"

\* C3: drop enqueues Exit before it joins, it returns only after the worker
\* has terminated, and (callbacks returning) a drop that is joining
\* eventually returns.
C3_DropJoinsWorker ==
    /\ [](owner \in {"joining", "dropped"} =>
            \E i \in 1..Len(enqueued) : enqueued[i] = Command(0, "Exit"))
    /\ [](owner = "dropped" => workerPc = "terminated")
    /\ ((owner = "joining") ~> (owner = "dropped" /\ workerPc = "terminated"))

C3_Witness ==
    /\ owner = "dropped"
    /\ Len(completed) >= 2
    /\ enqueued[Len(enqueued)] = Command(0, "Exit")

\* C4: drop never panics, whatever was sent before it.
C4_DropNeverPanics == owner # "drop_panicked"

\* C5: a send is never blocked; it returns Ok and appends the command
\* whenever the worker has not terminated, and it returns Err, leaving the
\* queue alone, only when the worker has terminated.
C5_SendOkWhileWorkerAlive ==
    /\ [](\A t \in Threads :
            (threadPc[t] = "holding" /\ sendCalls < MaxSends) =>
                ENABLED (\E k \in CommandKinds : Send(t, k)))
    /\ [][\A t \in Threads :
            (threadPc[t] = "holding" /\ sendCalls' = sendCalls + 1) =>
                IF workerPc # "terminated"
                THEN /\ sendResult'[t] = "Ok"
                     /\ Len(queue') = Len(queue) + 1
                     /\ SubSeq(queue', 1, Len(queue)) = queue
                     /\ queue'[Len(queue')].id = sendCalls'
                ELSE /\ sendResult'[t] = "Err"
                     /\ queue' = queue]_vars

C5_Witness ==
    /\ workerPc = "terminated"
    /\ \E t \in Threads : threadPc[t] = "holding" /\ sendResult[t] = "Err"
    /\ Len(enqueued) = 2
    /\ enqueued[1].kind = "Exit"

\* positions in which a thread owns a guard of COMMAND_EXECUTOR
GuardHeld == {"holding", "relocking"}

\* C6: at most one thread holds the guard of the shared instance, and a
\* thread waiting in instance() obtains the guard only in a step that starts
\* with no guard held.
C6_InstanceMutualExclusion ==
    [][/\ Cardinality({t \in Threads : threadPc'[t] \in GuardHeld}) <= 1
       /\ \A t \in Threads :
            (threadPc[t] = "waiting" /\ threadPc'[t] # "waiting") =>
                \A u \in Threads : threadPc[u] \notin GuardHeld]_vars

C6_Witness ==
    \E t, u \in Threads :
        /\ threadPc[t] = "holding"
        /\ threadPc[u] = "waiting"
        /\ mutexHolder = t

----------------------------------------------------------------------------
(* Properties of the crypto executor *)

VerkeyOps ==
    {"SetKeyMetadata", "GetKeyMetadata", "CryptoSign", "CryptoVerify",
     "AuthenticatedEncrypt", "AuthenticatedDecrypt", "AnonymousEncrypt",
     "AnonymousDecrypt"}

MalformedVerkeySupplied(cmd) ==
    /\ cmd.op \in VerkeyOps
    /\ \/ cmd.vk \notin WellFormedVerkeys
       \/ cmd.op = "AuthenticatedEncrypt" /\ cmd.vk2 \notin WellFormedVerkeys

\* C7: an execute of a verkey-taking command with a malformed verkey hands
\* the validation error to the callback, calls nothing but validate_key and
\* leaves the wallet as it was.
C7_ValidationPrecedence ==
    [][(opCount' = opCount + 1 /\ MalformedVerkeySupplied(lastCmd')) =>
            /\ Len(callbacks') = 1
            /\ ~callbacks'[1].ok
            /\ callbacks'[1].err = "InvalidKeyFormat"
            /\ \A i \in 1..Len(calls') : calls'[i] = "validate_key"
            /\ wallet' = wallet]_vars

C7_Witness ==
    /\ lastCmd.op = "AuthenticatedEncrypt"
    /\ lastCmd.vk \in WellFormedVerkeys
    /\ lastCmd.vk2 \notin WellFormedVerkeys
    /\ Find(wallet, lastCmd.wh, "Key", lastCmd.vk) # {}
    /\ ~lastRes.ok
    /\ calls = <<"validate_key", "validate_key">>

GeneratedKey(cmd) == CryptoService_create_key(cmd.info, cmd.rnd)

\* C8: a scope never holds two Key records of one verkey, and a create_key
\* whose generated verkey already names a Key record of the scope hands the
\* already-exists error to the callback and leaves the wallet as it was.
C8_CreateKeyNeverOverwrites ==
    /\ [](\A wh \in Handles, vk \in Verkeys :
            Cardinality(Find(wallet, wh, "Key", vk)) <= 1)
    /\ [][(/\ opCount' = opCount + 1
           /\ lastCmd'.op = "CreateKey"
           /\ GeneratedKey(lastCmd').ok
           /\ Find(wallet, lastCmd'.wh, "Key",
                   GeneratedKey(lastCmd').val.verkey) # {}) =>
            /\ ~lastRes'.ok
            /\ lastRes'.err = "WalletItemAlreadyExists"
            /\ wallet' = wallet]_vars

C8_Witness ==
    /\ lastCmd.op = "CreateKey"
    /\ lastCmd.info.seed = "seed1"
    /\ ~lastRes.ok
    /\ lastRes.err = "WalletItemAlreadyExists"
    /\ Find(wallet, lastCmd.wh, "Key", "V1") = {Record(lastCmd.wh, "Key", "V1", Key("V1"))}

Last(s) == s[Len(s)]

\* C9: set_key_metadata with a well-formed verkey always succeeds, the store
\* then holds exactly the latest value set for that handle and verkey, and
\* get_key_metadata returns that latest value.
C9_MetadataRoundTrip ==
    /\ (lastCmd.op = "SetKeyMetadata" /\ lastCmd.vk \in WellFormedVerkeys) =>
            lastRes.ok
    /\ \A wh \in Handles, vk \in WellFormedVerkeys :
            metaSet[<<wh, vk>>] # <<>> =>
                Find(wallet, wh, "KeyMetadata", vk) =
                    {Record(wh, "KeyMetadata", vk, KeyMetadata(Last(metaSet[<<wh, vk>>])))}
    /\ (/\ lastCmd.op = "GetKeyMetadata"
        /\ lastCmd.vk \in WellFormedVerkeys
        /\ metaSet[<<lastCmd.wh, lastCmd.vk>>] # <<>>) =>
            /\ lastRes.ok
            /\ lastRes.val = Last(metaSet[<<lastCmd.wh, lastCmd.vk>>])

C9_Witness ==
    /\ lastCmd.op = "GetKeyMetadata"
    /\ metaSet[<<lastCmd.wh, lastCmd.vk>>] = <<"m1", "m2">>
    /\ lastRes.ok
    /\ lastRes.val = "m2"

\* C10: set_key_metadata succeeds for a well-formed verkey that has no Key
\* record in the scope, and get_key_metadata hands out not-found exactly
\* when no set_key_metadata succeeded for that handle and verkey, whether or
\* not a Key record of that name is stored.
C10_MetadataIndependentOfKey ==
    /\ (/\ lastCmd.op = "SetKeyMetadata"
        /\ lastCmd.vk \in WellFormedVerkeys
        /\ Find(wallet, lastCmd.wh, "Key", lastCmd.vk) = {}) =>
            lastRes.ok
    /\ (lastCmd.op = "GetKeyMetadata" /\ lastCmd.vk \in WellFormedVerkeys) =>
            ((~lastRes.ok /\ lastRes.err = "WalletItemNotFound")
                <=> metaSet[<<lastCmd.wh, lastCmd.vk>>] = <<>>)

C10_Witness ==
    /\ lastCmd.op = "GetKeyMetadata"
    /\ Find(wallet, lastCmd.wh, "Key", lastCmd.vk) # {}
    /\ ~lastRes.ok
    /\ lastRes.err = "WalletItemNotFound"

KeyStored(wal, wh, vk) ==
    /\ vk \in WellFormedVerkeys
    /\ Find(wal, wh, "Key", vk) = {Record(wh, "Key", vk, Key(vk))}

\* C11: crypto_sign with the verkey of a Key that create_key stored in the
\* wallet succeeds, crypto_verify accepts its signature for the signed
\* message and answers Ok(false), not an error, for every other message; an
\* executed crypto_verify of such a signature answers Ok(true) exactly for
\* the signed message.
C11_SignVerify ==
    /\ (lastCmd.op = "CryptoSign" /\ KeyStored(wallet, lastCmd.wh, lastCmd.vk)) =>
            /\ lastRes.ok
            /\ \A m \in Messages :
                LET v == crypto_verify(wallet, lastCmd.vk, m, lastRes.val).res
                IN v.ok /\ (v.val <=> m = lastCmd.msg)
    /\ (/\ lastCmd.op = "CryptoVerify"
        /\ lastCmd.vk \in WellFormedVerkeys
        /\ lastCmd.sig.wf
        /\ lastCmd.sig.signkey = Key(lastCmd.vk).signkey) =>
            /\ lastRes.ok
            /\ lastRes.val <=> lastCmd.sig.msg = lastCmd.msg

C11_Witness ==
    /\ lastCmd.op = "CryptoVerify"
    /\ lastCmd.msg = "tampered"
    /\ lastCmd.vk \in WellFormedVerkeys
    /\ lastCmd.sig = Signature(Key(lastCmd.vk).signkey, "hello")
    /\ \E wh \in Handles : KeyStored(wallet, wh, lastCmd.vk)
    /\ lastRes.ok
    /\ ~lastRes.val

WalletCalls == {"wallet.get", "wallet.add", "wallet.upsert"}

PrimitiveCalls ==
    {"sign", "verify", "authenticated_encrypt", "authenticated_decrypt",
     "crypto_box_seal", "crypto_box_seal_open"}

CallsTo(cs, names) == {i \in 1..Len(cs) : cs[i] \in names}

\* C12: an execute of crypto_verify or of anonymous_encrypt makes no
\* WalletService call and leaves the wallet as it was, whether it succeeds,
\* fails validation or fails in the primitive.
C12_NoWalletInVerifyAndSeal ==
    [][(/\ opCount' = opCount + 1
        /\ lastCmd'.op \in {"CryptoVerify", "AnonymousEncrypt"}) =>
            /\ CallsTo(calls', WalletCalls) = {}
            /\ wallet' = wallet]_vars

C12_Witness ==
    /\ lastCmd.op = "CryptoVerify"
    /\ wallet # {}
    /\ ~lastRes.ok
    /\ lastRes.err = "CryptoOperationFailed"
    /\ calls = <<"validate_key", "verify">>

FetchingOps ==
    {"CryptoSign", "AuthenticatedEncrypt", "AuthenticatedDecrypt", "AnonymousDecrypt"}

KeyMissReported ==
    /\ ~lastRes.ok
    /\ lastRes.err = "WalletItemNotFound"
    /\ CallsTo(calls, PrimitiveCalls) = {}
    /\ Cardinality(CallsTo(calls, {"wallet.get"})) = 1

\* C13 as stated: a fetching operation given a well-formed local verkey
\* without a Key record in the scope hands the not-found error to the
\* callback, calls no primitive and fetches exactly once.
C13_Original ==
    (/\ lastCmd.op \in FetchingOps
     /\ lastCmd.vk \in WellFormedVerkeys
     /\ Find(wallet, lastCmd.wh, "Key", lastCmd.vk) = {}) =>
        KeyMissReported

\* C13 amended: the same, when every supplied verkey is well-formed (for
\* authenticated_encrypt their_vk as well as my_vk).
C13_KeyMissPropagates ==
    (/\ lastCmd.op \in FetchingOps
     /\ lastCmd.vk \in WellFormedVerkeys
     /\ lastCmd.op = "AuthenticatedEncrypt" => lastCmd.vk2 \in WellFormedVerkeys
     /\ Find(wallet, lastCmd.wh, "Key", lastCmd.vk) = {}) =>
        KeyMissReported

C13_Witness ==
    /\ lastCmd.op = "AuthenticatedEncrypt"
    /\ lastCmd.vk \in WellFormedVerkeys
    /\ lastCmd.vk2 \in WellFormedVerkeys
    /\ Find(wallet, lastCmd.wh, "Key", lastCmd.vk) = {}
    /\ wallet # {}
    /\ lastRes.err = "WalletItemNotFound"
    /\ calls = <<"validate_key", "validate_key", "wallet.get">>

CryptoOps ==
    {"CreateKey", "SetKeyMetadata", "GetKeyMetadata", "CryptoSign", "CryptoVerify",
     "AuthenticatedEncrypt", "AuthenticatedDecrypt", "AnonymousEncrypt",
     "AnonymousDecrypt"}

\* the failure paths of a command run against wallet wal: validation failure,
\* wallet failure, primitive failure
ShouldFail(cmd, wal) ==
    \/ MalformedVerkeySupplied(cmd)
    \/ /\ cmd.op = "CreateKey"
       /\ \/ cmd.info.crypto_type = "unknown"
          \/ \E vk \in WellFormedVerkeys :
                /\ Find(wal, cmd.wh, "Key", vk) # {}
                /\ \/ cmd.info.seed = "seed1" /\ vk = "V1"
                   \/ cmd.info.seed = "seed2" /\ vk = "V2"
                   \/ cmd.info.seed = "none" /\ vk = cmd.rnd
    \/ cmd.op = "GetKeyMetadata" /\ Find(wal, cmd.wh, "KeyMetadata", cmd.vk) = {}
    \/ cmd.op \in FetchingOps /\ Find(wal, cmd.wh, "Key", cmd.vk) = {}
    \/ cmd.op = "CryptoVerify" /\ ~cmd.sig.wf
    \/ cmd.op = "AuthenticatedDecrypt"
            /\ ~(cmd.ct.kind = "authcrypt" /\ cmd.ct.recipient = cmd.vk)
    \/ cmd.op = "AnonymousDecrypt"
            /\ ~(cmd.ct.kind = "sealed" /\ cmd.ct.recipient = cmd.vk)

\* C16: one execute of any of the nine commands invokes the callback exactly
\* once, with Err on a validation, wallet or primitive failure and with Ok
\* otherwise.
C16_CallbackExactlyOnce ==
    [][opCount' = opCount + 1 =>
            /\ lastCmd'.op \in CryptoOps
            /\ Len(callbacks') = 1
            /\ callbacks'[1].ok <=> ~ShouldFail(lastCmd', wallet)]_vars

C16_Witness ==
    /\ lastCmd.op = "AuthenticatedDecrypt"
    /\ KeyStored(wallet, lastCmd.wh, lastCmd.vk)
    /\ Len(callbacks) = 1
    /\ ~callbacks[1].ok
    /\ callbacks[1].err = "CryptoOperationFailed"

\* C18: a Key record, once stored, is the same record in every later state:
\* no execute of any of the nine commands removes or replaces it, and it
\* always holds the verkey it is named by and that verkey's signkey.
C18_StoredKeyImmutable ==
    [][\A wh \in Handles, vk \in WellFormedVerkeys :
            Find(wallet, wh, "Key", vk) # {} =>
                /\ Find(wallet', wh, "Key", vk) = Find(wallet, wh, "Key", vk)
                /\ \A r \in Find(wallet', wh, "Key", vk) :
                        /\ DOMAIN r.value = {"verkey", "signkey"}
                        /\ r.value.verkey = vk
                        /\ r.value.signkey = Key(vk).signkey]_vars

C18_Witness ==
    /\ lastCmd.op = "SetKeyMetadata"
    /\ lastRes.ok
    /\ KeyStored(wallet, lastCmd.wh, lastCmd.vk)
    /\ Find(wallet, lastCmd.wh, "KeyMetadata", lastCmd.vk) # {}

WellFormedInputs(cmd) ==
    /\ ~MalformedVerkeySupplied(cmd)
    /\ cmd.op = "CreateKey" => cmd.info.crypto_type # "unknown"

\* C20 as stated: crypto_verify makes no wallet call, and each of the other
\* eight operations, given well-formed inputs, makes at least one.
C20_Original ==
    /\ lastCmd.op = "CryptoVerify" => CallsTo(calls, WalletCalls) = {}
    /\ (lastCmd.op \in CryptoOps \ {"CryptoVerify"} /\ WellFormedInputs(lastCmd)) =>
            CallsTo(calls, WalletCalls) # {}

\* C20 amended: crypto_verify and anonymous_encrypt make no wallet call, and
\* each of the other seven operations, given well-formed inputs, makes at
\* least one.
C20_WalletFreeOperations ==
    /\ lastCmd.op \in {"CryptoVerify", "AnonymousEncrypt"} =>
            CallsTo(calls, WalletCalls) = {}
    /\ (/\ lastCmd.op \in CryptoOps \ {"CryptoVerify", "AnonymousEncrypt"}
        /\ WellFormedInputs(lastCmd)) =>
            CallsTo(calls, WalletCalls) # {}

C20_Witness ==
    /\ lastCmd.op = "AnonymousEncrypt"
    /\ WellFormedInputs(lastCmd)
    /\ lastRes.ok
    /\ calls = <<"validate_key", "crypto_box_seal">>
    /\ \E wh \in Handles : KeyStored(wallet, wh, lastCmd.vk)

----------------------------------------------------------------------------
(* Further properties of the dispatcher *)

LoopLeft == workerPc \in {"exited", "terminated"}

\* C14: no command accepted by the channel behind an Exit is ever started,
\* and once the worker has dequeued Exit it starts and completes nothing
\* more and never returns to its loop.
C14_NothingRunsAfterExit ==
    /\ [](\A i, j \in 1..Len(enqueued) :
            (i < j /\ enqueued[i].kind = "Exit") =>
                \A n \in 1..Len(started) : started[n] # enqueued[j])
    /\ [](LoopLeft => (current = NoCommand /\ started = completed))
    /\ [][LoopLeft => (started' = started /\ completed' = completed /\ LoopLeft')]_vars

C14_Witness ==
    /\ workerPc = "terminated"
    /\ Len(enqueued) = 3
    /\ enqueued[2].kind = "Exit"
    /\ enqueued[3].kind # "Exit"
    /\ Len(completed) = 1
    /\ \E t \in Threads : sendResult[t] = "Ok"

\* C15: the worker executes at most one command at a time; it takes the next
\* command off the channel only when the execute of the current one, callback
\* included, has returned, and while an execute is running neither a receive
\* nor drop's join can happen.
C15_OneCommandAtATime ==
    /\ [](Len(started) = Len(completed) + (IF workerPc = "exec" THEN 1 ELSE 0))
    /\ [](workerPc = "exec" <=> current # NoCommand)
    /\ [](workerPc = "exec" => (~ENABLED WorkerRecv /\ ~ENABLED DropJoin))
    /\ [][started' # started =>
            (workerPc = "recv" /\ started = completed)]_vars

C15_Witness ==
    /\ workerPc = "exec"
    /\ owner = "joining"
    /\ Len(queue) = 2
    /\ Len(completed) = 1

\* C17: the worker never takes the panic arm of its receive: the Sender is
\* dropped only when the worker has already terminated, and a worker that
\* has dequeued Exit receives no more.
C17_RecvNeverDisconnected ==
    /\ workerPc # "panicked"
    /\ ~(workerPc = "recv" /\ queue = <<>> /\ ~senderAlive)
    /\ ~senderAlive => (workerPc = "terminated" /\ owner \in {"dropped", "drop_panicked"})
    /\ LoopLeft => ~ENABLED WorkerRecv

C17_Witness ==
    /\ owner = "dropped"
    /\ ~senderAlive
    /\ workerPc = "terminated"
    /\ Len(completed) = 2

\* C19: a thread that calls instance() again while it holds the guard stays
\* in that call for ever, still owning the first guard.
C19_InstanceNotReentrant ==
    /\ [](\A t \in Threads : threadPc[t] = "relocking" => mutexHolder = t)
    /\ [][\A t \in Threads :
            threadPc[t] = "relocking" =>
                (threadPc'[t] = "relocking" /\ mutexHolder' = t)]_vars

C19_Witness ==
    \E t, u \in Threads :
        /\ threadPc[t] = "relocking"
        /\ threadPc[u] = "waiting"
        /\ sendResult[t] = "Ok"

====
